---------------------------- MODULE Spec2Model ----------------------------
(***************************************************************************)
(* Modbus RTU poller (src/main.go): CRC-16, request frame construction,    *)
(* response parsing, value interpretation, and the ticker-driven polling   *)
(* goroutine talking to a serial port.                                     *)
(*                                                                         *)
(* Two specifications:                                                     *)
(*   CodecSpec  applies the pure functions (crc16, the request frame built *)
(*              by sendModbusRequest, parseModbusResponse, the masks of    *)
(*              main) to inputs drawn from bounded sets;                   *)
(*   Spec       the polling goroutine, the ticker channel, the serial      *)
(*              line and the device; FairSpec adds the fairness of the     *)
(*              ticker, of the goroutine's steps and of the device.        *)
(***************************************************************************)
EXTENDS Integers, Sequences, FiniteSets

VARIABLES
    call,       \* codec: the last pure-function call, [fn |-> ..., arguments]
    ret,        \* codec: what that call returned
    pc,         \* goroutine position: "wait" (for range ticker.C), "write", "read"
    cur,        \* index of the reading the goroutine is working on (1..3), 0 when waiting
    tickC,      \* ticker.C holds an undelivered tick (channel of capacity 1)
    wire,       \* request frames written to the port, not yet answered by the device
    transit,    \* response bytes the device has sent that have not reached the port yet
    rx,         \* response bytes buffered in the port, not yet read
                \* (every frame and byte on the line carries, as history, the reading
                \*  whose request caused it and whether that request is the latest one)
    sent,       \* start addresses handed to port.Write since the last tick, in order
    outstanding,\* exchanges whose Write has returned and whose Read has not
    event       \* what the goroutine last printed or logged

codecVars == <<call, ret>>
pollVars  == <<pc, cur, tickC, wire, transit, rx, sent, outstanding, event>>
vars      == <<call, ret, pc, cur, tickC, wire, transit, rx, sent, outstanding, event>>

---------------------------------------------------------------------------
(* Bounds of the model *)

MaxRegs    == 2    \* register counts 1..MaxRegs in the parse checks
MaxPending == 2    \* requests on the wire awaiting the device
MaxBuffered == 2   \* response frames in transit or buffered in the port
SplitAt    == 3    \* a response may arrive split after this many bytes

\* sample bytes and 16-bit words the inputs are drawn from
Addrs  == {0, 1, 17, 255}
Words  == {0, 1, 2, 42, 255, 256, 4095, 4096, 4353, 43690, 65534, 65535}
Starts == {0, 4353, 4363, 4609, 65535}
FunctionCodes == {3, 4}

---------------------------------------------------------------------------
(* Bit operations on naturals *)

Xor[a \in Nat, b \in Nat] ==
    IF a = 0 THEN b
    ELSE IF b = 0 THEN a
    ELSE ((a + b) % 2) + 2 * Xor[a \div 2, b \div 2]

And[a \in Nat, b \in Nat] ==
    IF a = 0 \/ b = 0 THEN 0
    ELSE ((a % 2) * (b % 2)) + 2 * And[a \div 2, b \div 2]

---------------------------------------------------------------------------
(* crc16, main.go:27-40 *)

CrcInit == 65535     \* 0xFFFF
CrcPoly == 40961     \* 0xA001
UInt16  == 0..65535

\* the inner loop (lines 31-37): eight times, shift right and, when the bit
\* shifted out was set, xor the polynomial in
CrcBits[crc \in UInt16, i \in 0..8] ==
    IF i >= 8 THEN crc
    ELSE IF And[crc, 1] # 0
         THEN CrcBits[Xor[crc \div 2, CrcPoly], i + 1]
         ELSE CrcBits[crc \div 2, i + 1]

\* the body of the outer loop for one byte (lines 30-37)
CrcByte(crc, b) == CrcBits[Xor[crc, b], 0]

\* the outer loop (lines 28-39) over data
crc16(data) ==
    LET acc[n \in 0..Len(data)] ==
            IF n = 0 THEN CrcInit ELSE CrcByte(acc[n - 1], data[n])
    IN  acc[Len(data)]

---------------------------------------------------------------------------
(* The request frame of sendModbusRequest, main.go:45-56 *)

CrcTrailerHighFirst(crc) == << (crc \div 256) % 256, And[crc, 255] >>

\* byte(crc&0xFF), byte(crc>>8): low byte first
CrcTrailer(crc) == << And[crc, 255], (crc \div 256) % 256 >>

RequestFrame(address, functionCode, startAddress, numRegisters) ==
    LET request == << address,
                      functionCode,
                      (startAddress \div 256) % 256,
                      And[startAddress, 255],
                      (numRegisters \div 256) % 256,
                      And[numRegisters, 255] >>
    IN  request \o CrcTrailer(crc16(request))

---------------------------------------------------------------------------
(* parseModbusResponse, main.go:75-94 *)

\* binary.LittleEndian.Uint16 / binary.BigEndian.Uint16 of two bytes
LittleEndianUint16(b) == b[1] + 256 * b[2]
BigEndianUint16Swapped(b) == b[1] + 256 * b[2]
BigEndianUint16(b) == 256 * b[1] + b[2]

ErrLength == "invalid response length"
ErrCRC    == "CRC check failed"
NoErr     == "nil"

\* line 76
TooShort(response, numRegisters) == Len(response) < 3 + 2 * numRegisters

CrcMismatchLowByteOnly(response) ==
    LET n == Len(response)
    IN  crc16(SubSeq(response, 1, n - 2)) % 256 # response[n - 1]

\* lines 81-82
CrcMismatch(response) ==
    LET n == Len(response)
    IN  crc16(SubSeq(response, 1, n - 2)) # LittleEndianUint16(SubSeq(response, n - 1, n))

\* lines 87-91
ExtractData(response, numRegisters) ==
    LET data == SubSeq(response, 4, Len(response))
    IN  [i \in 1..numRegisters |-> BigEndianUint16(SubSeq(data, 2 * i - 1, 2 * i))]

parseCrcFirst(response, numRegisters) ==
    IF Len(response) >= 2 /\ CrcMismatch(response)
    THEN [err |-> ErrCRC, result |-> <<>>]
    ELSE IF TooShort(response, numRegisters)
    THEN [err |-> ErrLength, result |-> <<>>]
    ELSE [err |-> NoErr, result |-> ExtractData(response, numRegisters)]

parseModbusResponse(response, numRegisters) ==
    IF TooShort(response, numRegisters)
    THEN [err |-> ErrLength, result |-> <<>>]
    ELSE IF CrcMismatch(response)
    THEN [err |-> ErrCRC, result |-> <<>>]
    ELSE [err |-> NoErr, result |-> ExtractData(response, numRegisters)]

---------------------------------------------------------------------------
(* The value interpretation of main, main.go:165, 180-181, 196-202 *)

FanSpeedValue(w) == w
TempValue(w) == And[w, 4095]
StateValueUnmasked(w) == IF w = 1 THEN "away" ELSE "home"
StateValue(w) == IF And[w, 1] = 1 THEN "away" ELSE "home"

---------------------------------------------------------------------------
(* What a Modbus slave puts on the line: a read response carrying the      *)
(* register words big-endian, and an exception reply, each with its CRC    *)
(* trailer low byte first.                                                 *)

RECURSIVE WordBytes(_)
WordBytes(ws) ==
    IF ws = <<>> THEN <<>>
    ELSE << Head(ws) \div 256, Head(ws) % 256 >> \o WordBytes(Tail(ws))

ResponseFrame(address, functionCode, ws) ==
    LET body == << address, functionCode, 2 * Len(ws) >> \o WordBytes(ws)
        crc  == crc16(body)
    IN  body \o << crc % 256, crc \div 256 >>

ExceptionFrame(address, functionCode, code) ==
    LET body == << address, functionCode + 128, code >>
        crc  == crc16(body)
    IN  body \o << crc % 256, crc \div 256 >>

\* byte b with bit k (0..7) inverted
FlipBit(b, k) ==
    LET p == 2 ^ k
    IN  IF (b \div p) % 2 = 1 THEN b - p ELSE b + p

\* frame with bit k of its i-th byte inverted
FlipFrameBit(frame, i, k) == [frame EXCEPT ![i] = FlipBit(frame[i], k)]

---------------------------------------------------------------------------
(* The state of the polling side while only the pure functions are applied *)

NoEvent == [kind |-> "none"]

PollInit ==
    /\ pc = "wait"
    /\ cur = 0
    /\ tickC = FALSE
    /\ wire = <<>>
    /\ transit = <<>>
    /\ rx = <<>>
    /\ sent = <<>>
    /\ outstanding = 0
    /\ event = NoEvent

CodecInit ==
    /\ call = [fn |-> "none"]
    /\ ret = [err |-> NoErr, result |-> <<>>]
    /\ PollInit

---------------------------------------------------------------------------
(* Applications of the pure functions: one call per behaviour *)

NotCalled == call.fn = "none"

\* the frame sendModbusRequest builds for its arguments
CallRequestFrame ==
    \E a \in Addrs, fc \in FunctionCodes, s \in Starts, n \in Words :
        /\ NotCalled
        /\ call' = [fn |-> "request", address |-> a, functionCode |-> fc,
                    startAddress |-> s, numRegisters |-> n]
        /\ ret' = RequestFrame(a, fc, s, n)
        /\ UNCHANGED pollVars

\* parseModbusResponse on a well-formed single-register response
CallParseWellFormed ==
    \E a \in Addrs, v \in Words :
        LET response == ResponseFrame(a, 3, <<v>>)
        IN  /\ NotCalled
            /\ call' = [fn |-> "parse", shape |-> "wellformed", address |-> a,
                        value |-> v, response |-> response, numRegisters |-> 1]
            /\ ret' = parseModbusResponse(response, 1)
            /\ UNCHANGED pollVars

\* parseModbusResponse on a well-formed single-register response with one bit inverted
CallParseFlipped ==
    \E a \in Addrs, v \in Words, i \in 1..7, k \in 0..7 :
        LET response == FlipFrameBit(ResponseFrame(a, 3, <<v>>), i, k)
        IN  /\ NotCalled
            /\ call' = [fn |-> "parse", shape |-> "flipped", address |-> a,
                        value |-> v, byte |-> i, bit |-> k,
                        response |-> response, numRegisters |-> 1]
            /\ ret' = parseModbusResponse(response, 1)
            /\ UNCHANGED pollVars

\* parseModbusResponse on a response cut to fewer bytes than were sent
CallParseTruncated ==
    \E a \in Addrs, n \in 1..MaxRegs, v \in Words, len \in 0..(4 + 2 * MaxRegs) :
        LET full     == ResponseFrame(a, 3, [j \in 1..n |-> (v + j - 1) % 65536])
            response == SubSeq(full, 1, len)
        IN  /\ NotCalled
            /\ len < Len(full)
            /\ call' = [fn |-> "parse", shape |-> "truncated", address |-> a,
                        value |-> v, response |-> response, numRegisters |-> n]
            /\ ret' = parseModbusResponse(response, n)
            /\ UNCHANGED pollVars

\* parseModbusResponse on the device's 5-byte exception reply
CallParseException ==
    \E a \in Addrs, code \in 1..4, n \in 1..MaxRegs :
        LET response == ExceptionFrame(a, 3, code)
        IN  /\ NotCalled
            /\ call' = [fn |-> "parse", shape |-> "exception", address |-> a,
                        value |-> code, response |-> response, numRegisters |-> n]
            /\ ret' = parseModbusResponse(response, n)
            /\ UNCHANGED pollVars

\* the three interpretations of a raw register word
CallInterpret ==
    \E w \in Words :
        /\ NotCalled
        /\ call' = [fn |-> "interpret", word |-> w]
        /\ ret' = [fanSpeed |-> FanSpeedValue(w), temp |-> TempValue(w),
                   state |-> StateValue(w)]
        /\ UNCHANGED pollVars

CodecNext ==
    \/ CallRequestFrame
    \/ CallParseWellFormed
    \/ CallParseFlipped
    \/ CallParseTruncated
    \/ CallParseException
    \/ CallInterpret

CodecSpec == CodecInit /\ [][CodecNext]_vars

---------------------------------------------------------------------------
(* The polling goroutine of main, main.go:150-204, and its surroundings *)

\* the three reads of one cycle, in program order (lines 153, 168, 184)
ReadingName  == << "FAN_SPEED", "Multisensor_temp", "state" >>
ReadingStart == << 4353, 4363, 4609 >>
Readings     == 1..Len(ReadingStart)

\* config.ModbusSlaveAddress
SlaveAddress == 1

\* what the three reads print for the decoded word (lines 165, 181, 202)
Interpret(r, w) ==
    IF r = 1 THEN FanSpeedValue(w)
    ELSE IF r = 2 THEN TempValue(w)
    ELSE StateValue(w)

\* `continue` after an error (lines 156, 162, 171, 177, 187, 193): back to the
\* `for range ticker.C`
AfterFailure(r) == [pc |-> "wait", cur |-> 0]

AfterValueRepeats(r) == [pc |-> "write", cur |-> r]

\* after a value was printed: the next read of the cycle, or the end of the loop body
AfterValue(r) ==
    IF r < Len(ReadingStart)
    THEN [pc |-> "write", cur |-> r + 1]
    ELSE [pc |-> "wait", cur |-> 0]

\* the registers the device holds
DeviceRegister(start) ==
    IF start = 4353 THEN 42
    ELSE IF start = 4363 THEN 65535
    ELSE IF start = 4609 THEN 1
    ELSE 0

Bytes(tagged) == [i \in 1..Len(tagged) |-> tagged[i].b]
Tag(bytes, r, latest) == [i \in 1..Len(bytes) |-> [b |-> bytes[i], rd |-> r, latest |-> latest]]
Superseded(line) == [i \in 1..Len(line) |-> [line[i] EXCEPT !.latest = FALSE]]

Init ==
    /\ call = [fn |-> "none"]
    /\ ret = [err |-> NoErr, result |-> <<>>]
    /\ PollInit

\* time.NewTicker (line 146): the runtime puts a tick into ticker.C, and drops
\* it when the previous one has not been received
TickerFire ==
    /\ ~tickC
    /\ tickC' = TRUE
    /\ UNCHANGED <<call, ret, pc, cur, wire, transit, rx, sent, outstanding, event>>

\* `for range ticker.C` (line 151) receives a tick: a new cycle starts
GoTick ==
    /\ pc = "wait"
    /\ tickC
    /\ tickC' = FALSE
    /\ pc' = "write"
    /\ cur' = 1
    /\ sent' = <<>>
    /\ UNCHANGED <<call, ret, wire, transit, rx, outstanding, event>>

\* sendModbusRequest up to port.Write (lines 45-62), and main's handling of
\* its error (lines 154-157, 169-172, 185-188)
GoWrite ==
    /\ pc = "write"
    /\ sent' = Append(sent, ReadingStart[cur])
    /\ \/ \* port.Write succeeds: the frame is on the line
          /\ Len(wire) < MaxPending
          /\ wire' = Append(Superseded(wire),
                            [frame |-> RequestFrame(SlaveAddress, 3, ReadingStart[cur], 1),
                             rd |-> cur, latest |-> TRUE])
          /\ transit' = Superseded(transit)
          /\ rx' = Superseded(rx)
          /\ outstanding' = outstanding + 1
          /\ pc' = "read"
          /\ UNCHANGED <<cur, event>>
       \/ \* port.Write fails
          /\ event' = [kind |-> "error", rd |-> cur, err |-> "write"]
          /\ pc' = AfterFailure(cur).pc
          /\ cur' = AfterFailure(cur).cur
          /\ UNCHANGED <<wire, transit, rx, outstanding>>
    /\ UNCHANGED <<call, ret, tickC>>

\* port.Read returns (lines 65-71); then parseModbusResponse and the print or
\* the log of main (lines 154-165, 169-181, 185-202)
GoRead ==
    /\ pc = "read"
    /\ outstanding' = outstanding - 1
    /\ \/ \* the bytes buffered in the port are returned
          /\ rx # <<>>
          /\ rx' = <<>>
          /\ LET parsed == parseModbusResponse(Bytes(rx), 1)
             IN  IF parsed.err = NoErr
                 THEN /\ event' = [kind |-> "value", rd |-> cur,
                                   value |-> Interpret(cur, parsed.result[1]),
                                   own |-> \A i \in 4..5 : rx[i].latest /\ rx[i].rd = cur]
                      /\ pc' = AfterValue(cur).pc
                      /\ cur' = AfterValue(cur).cur
                 ELSE /\ event' = [kind |-> "error", rd |-> cur, err |-> parsed.err]
                      /\ pc' = AfterFailure(cur).pc
                      /\ cur' = AfterFailure(cur).cur
       \/ \* the read times out with nothing buffered: an error, or no bytes
          /\ rx = <<>>
          /\ \E e \in {"read", parseModbusResponse(<<>>, 1).err} :
                event' = [kind |-> "error", rd |-> cur, err |-> e]
          /\ pc' = AfterFailure(cur).pc
          /\ cur' = AfterFailure(cur).cur
          /\ UNCHANGED rx
       \/ \* the port reports an error
          /\ rx # <<>>
          /\ event' = [kind |-> "error", rd |-> cur, err |-> "read"]
          /\ pc' = AfterFailure(cur).pc
          /\ cur' = AfterFailure(cur).cur
          /\ UNCHANGED rx
    /\ UNCHANGED <<call, ret, tickC, wire, transit, sent>>

\* the device answers the oldest request on the line with the register asked for
DeviceAnswer ==
    /\ wire # <<>>
    /\ Len(transit) + Len(rx) + 7 <= 7 * MaxBuffered
    /\ LET req   == Head(wire)
           start == 256 * req.frame[3] + req.frame[4]
           resp  == ResponseFrame(req.frame[1], req.frame[2], << DeviceRegister(start) >>)
       IN  transit' = transit \o Tag(resp, req.rd, req.latest)
    /\ wire' = Tail(wire)
    /\ UNCHANGED <<call, ret, pc, cur, tickC, rx, sent, outstanding, event>>

\* bytes on their way reach the port: all of them, or the first SplitAt
Arrive ==
    /\ transit # <<>>
    /\ \E k \in {Len(transit), SplitAt} :
          /\ k <= Len(transit)
          /\ rx' = rx \o SubSeq(transit, 1, k)
          /\ transit' = SubSeq(transit, k + 1, Len(transit))
    /\ UNCHANGED <<call, ret, pc, cur, tickC, wire, sent, outstanding, event>>

Next ==
    \/ TickerFire
    \/ GoTick
    \/ GoWrite
    \/ GoRead
    \/ DeviceAnswer
    \/ Arrive

Spec == Init /\ [][Next]_vars

\* the ticker keeps firing, the goroutine keeps running (port.Write and
\* port.Read return: the read is bounded by ReadTimeout), the device and the
\* line keep working
FairSpec ==
    /\ Spec
    /\ WF_vars(TickerFire)
    /\ WF_vars(GoTick)
    /\ WF_vars(GoWrite)
    /\ WF_vars(GoRead)
    /\ WF_vars(DeviceAnswer)
    /\ WF_vars(Arrive)

---------------------------------------------------------------------------
(* Properties of the pure functions, checked under CodecSpec *)

IsByte(b) == b \in 0..255

\* C5: the frame sendModbusRequest writes is exactly 8 bytes: address,
\* function code, start address high then low byte, register count high then
\* low byte, then crc16 of those six bytes, low byte first then high byte.
RequestFrameLayout ==
    call.fn = "request" =>
        /\ Len(ret) = 8
        /\ \A i \in 1..8 : IsByte(ret[i])
        /\ ret[1] = call.address
        /\ ret[2] = call.functionCode
        /\ 256 * ret[3] + ret[4] = call.startAddress
        /\ 256 * ret[5] + ret[6] = call.numRegisters
        /\ ret[7] + 256 * ret[8] = crc16(SubSeq(ret, 1, 6))
        /\ (call.address = 1 /\ call.functionCode = 3 /\ call.startAddress = 0
               /\ call.numRegisters = 1)
           => ret = <<1, 3, 0, 0, 0, 1, 132, 10>>

RequestFrameBuilt ==
    /\ call.fn = "request"
    /\ call.address = 1 /\ call.functionCode = 3
    /\ call.startAddress = 4353 /\ call.numRegisters = 1
    /\ ret = <<1, 3, 17, 1, 0, 1, 208, 246>>

\* C2: parseModbusResponse with numRegisters = 1 on the well-formed response
\* [address, 0x03, 0x02, v high, v low, crcLo, crcHi] returns no error and [v].
RoundTrip ==
    (call.fn = "parse" /\ call.shape = "wellformed") =>
        /\ Len(call.response) = 7
        /\ call.response[4] = call.value \div 256
        /\ call.response[5] = call.value % 256
        /\ ret.err = NoErr
        /\ ret.result = << call.value >>

RoundTripOf42 ==
    /\ call.fn = "parse" /\ call.shape = "wellformed"
    /\ call.response = <<1, 3, 2, 0, 42, 57, 155>>
    /\ ret = [err |-> NoErr, result |-> <<42>>]

\* C3: inverting any single bit of the data bytes or of the two CRC bytes of a
\* well-formed single-register response makes parseModbusResponse fail with
\* "CRC check failed" and return no values.
SingleBitFlipDetected ==
    (call.fn = "parse" /\ call.shape = "flipped" /\ call.byte \in 4..7) =>
        /\ ret.err = ErrCRC
        /\ ret.result = <<>>

DataBitFlipped ==
    /\ call.fn = "parse" /\ call.shape = "flipped"
    /\ call.value = 42 /\ call.byte = 5 /\ call.bit = 0
    /\ call.response[5] = 43
    /\ ret.err = ErrCRC

\* C4: a response of fewer than 3 + 2*numRegisters bytes (the empty one
\* included) gets "invalid response length" and no values, whatever its CRC.
ShortResponseRejected ==
    (call.fn = "parse" /\ Len(call.response) < 3 + 2 * call.numRegisters) =>
        /\ ret.err = ErrLength
        /\ ret.result = <<>>

ShortAndCrcInvalid ==
    /\ call.fn = "parse" /\ call.shape = "truncated"
    /\ call.numRegisters = 1
    /\ Len(call.response) = 4
    /\ crc16(SubSeq(call.response, 1, 2)) # call.response[3] + 256 * call.response[4]
    /\ ret.err = ErrLength

\* C6: Multisensor_temp is w AND 0x0FFF, state is "away" exactly when bit 0 of
\* w is 1 and "home" exactly when it is 0, FAN_SPEED is w unchanged.
MaskingCorrect ==
    call.fn = "interpret" =>
        /\ ret.temp = call.word % 4096
        /\ ret.fanSpeed = call.word
        /\ ret.state \in {"home", "away"}
        /\ (ret.state = "away") <=> (call.word % 2 = 1)

AllOnesMasked ==
    /\ call.fn = "interpret"
    /\ call.word = 65535
    /\ ret.temp = 4095
    /\ ret.state = "away"

\* C9: when parseModbusResponse succeeds, every returned word was read from
\* bytes covered by the CRC (indices 3 .. len-3 counting from 0), never from
\* the two trailer bytes: the response has at least 5 + 2*numRegisters bytes.
ValuesNeverFromTrailer ==
    (call.fn = "parse" /\ ret.err = NoErr) =>
        Len(call.response) >= 5 + 2 * call.numRegisters

---------------------------------------------------------------------------
(* Properties of the polling goroutine, checked under Spec and FairSpec *)

IsPrefix(s, t) == Len(s) <= Len(t) /\ SubSeq(t, 1, Len(s)) = s

Failed(r) == pc = "wait" /\ event.kind = "error" /\ event.rd = r
Requested(r) == \E i \in 1..Len(sent) : sent[i] = ReadingStart[r]

\* C1: when one reading's exchange or decode fails, the requests of the other
\* readings of that cycle are still written in that cycle: whenever the
\* goroutine is back waiting for the next tick, the cycle it ended has handed
\* all three requests to the port.
SiblingsStillRequested ==
    (pc = "wait" /\ sent # <<>>) => \A r \in Readings : Requested(r)

\* C7: in every cycle the requests are written in the order 4353, 4363, 4609,
\* at most one per reading; a request is written only after the read of the
\* previous exchange has returned and a cycle starts only when the previous
\* one is over, so at most one exchange is outstanding on the port.
SequentialExchanges ==
    /\ IsPrefix(sent, ReadingStart)
    /\ outstanding \in {0, 1}
    /\ (outstanding = 1) <=> (pc = "read")
    /\ (pc = "wait") <=> (cur = 0)
    /\ (pc # "wait") => (cur \in Readings /\ Len(sent) \in {cur - 1, cur})
    /\ (pc = "read") => Len(sent) = cur

ThirdExchangeOutstanding ==
    /\ pc = "read"
    /\ cur = 3
    /\ outstanding = 1
    /\ sent = << 4353, 4363, 4609 >>
    /\ event = [kind |-> "value", rd |-> 2, value |-> 4095, own |-> TRUE]

\* C8: under fairness of the ticker, a reading that failed is eventually
\* requested again: after the failure a new cycle starts and writes that
\* reading's request.
FailedReadingRequestedAgain ==
    \A r \in Readings :
        [](Failed(r) => <>(~Requested(r) /\ <>Requested(r)))

\* C10: every value printed under a reading's name was decoded from the
\* device's response to that reading's own request of the same cycle.
ValueFromOwnResponse ==
    event.kind = "value" => event.own

=============================================================================
